---- MODULE Spec2Model ----
(***************************************************************************)
(* FreeRTOS support code for Teensy boards (src/portable/teensy_common.cpp) *)
(* as a state machine: the heap grower _sbrk_r called from a task and from  *)
(* an interrupt handler, the wall clock (clock::sync_rtc, _gettimeofday),   *)
(* and the fault path (assert_blink, the scheduler hooks, mcu_shutdown,     *)
(* trace_fcn, error_blink), the scheduler bridge (yield,                    *)
(* event_responder_set_pend_sv) and the diagnostic formatter (exc_printf,   *)
(* exc_puint).                                                              *)
(***************************************************************************)
EXTENDS Integers, Sequences, FiniteSets, TLC

VARIABLES
    \* ---- heap grower ----
    g_current_heap_end,   \* uint8_t* _g_current_heap_end
    primask,              \* the core's PRIMASK bit: 1 = interrupts masked
    pc,                   \* per context: the line of _sbrk_r about to execute
    incr,                 \* per context: the argument incr
    saved_primask,        \* per context: the local primask
    previous_heap_end,    \* per context: the local previous_heap_end
    ret,                  \* per context: the value returned by the last call
    errno_,               \* p_reent->_errno
    malloc_failed_hook,   \* configUSE_MALLOC_FAILED_HOOK == 1
    calls,                \* history: one record per decided _sbrk_r call
    entry_primask,        \* history, per context: PRIMASK when _sbrk_r was called
    \* ---- wall clock ----
    offset_,              \* timeval clock::offset_
    mono_us,              \* freertos::get_us()
    gpc,                  \* position of the _gettimeofday caller
    g_now,                \* _gettimeofday's local now
    g_sec,                \* the tv_sec of offset_ as read by timeradd
    g_usec,               \* the tv_usec of offset_ as read by timeradd
    tv,                   \* the timeval _gettimeofday stored
    last_sync,            \* history: inputs of the last sync_rtc
    n_sync,               \* history: number of sync_rtc calls so far
    g_fresh,              \* history: a sync preceded the running _gettimeofday and none followed
    snapshots,            \* history: values offset_ held during the running _gettimeofday
    \* ---- fault path ----
    fpc,                  \* position in the fault path
    fctx,                 \* the context that runs the fault path
    entry,                \* the fault entry point taken
    nblink,               \* error_blink's argument n
    iblink,               \* error_blink's loop counter i
    depth,                \* assert_blink's local depth
    g_trace_lr,           \* uint32_t g_trace_lr
    ctx_lr,               \* register 14 of the unwind context as set by trace_fcn
    basepri,              \* 1 once portDISABLE_INTERRUPTS() raised BASEPRI
    usb_prio,             \* "lowered" once NVIC_SET_PRIORITY(IRQ_USB1, ...) ran
    sched_suspended,      \* the scheduler's suspension count (vTaskSuspendAll)
    pin_mode,             \* mode of the debug LED pin
    pin,                  \* level of the debug LED pin
    arm_clock,            \* the last frequency given to set_arm_clock
    log,                  \* history: what the running fault path did before its blink loop
    cycle,                \* history: pin writes and delays of the current blink cycle
    trace_ip,             \* history: _Unwind_GetIP of the frame last given to trace_fcn
    trace_rc,             \* history: what trace_fcn returned for that frame
    lr_writes,            \* history: number of _Unwind_SetGR(ctx, 14, ...) in the running walk
    \* ---- scheduler bridge ----
    scheduler_state,      \* xTaskGetSchedulerState()
    g_yield_task,         \* freertos::g_yield_task (0 = nullptr)
    g_event_responder_task, \* freertos::g_event_responder_task (0 = nullptr)
    bpc,                  \* position of the caller inside yield / event_responder_set_pend_sv
    in_isr,               \* the caller executes inside an interrupt handler
    bops,                 \* history: the primitives the running call invoked, in order
    bcase,                \* history: the state the running call found
    \* ---- diagnostic formatter ----
    fstate,               \* "idle", "run", "done" or "trap"
    fstack,               \* the active exc_printf calls, outermost first
    fout,                 \* the characters given to print, in order
    fcall,                \* history: the items and arguments of the outermost call
    fva                   \* history: number of va_arg uses since the outermost call

heapvars == <<g_current_heap_end, primask, pc, incr, saved_primask,
              previous_heap_end, ret, errno_, malloc_failed_hook, calls, entry_primask>>
clockvars == <<offset_, mono_us, gpc, g_now, g_sec, g_usec, tv, last_sync, n_sync,
               g_fresh, snapshots>>
tracevars == <<trace_ip, trace_rc, lr_writes>>
faultvars == <<fpc, fctx, entry, nblink, iblink, depth, g_trace_lr, ctx_lr, basepri,
               usb_prio, sched_suspended, pin_mode, pin, arm_clock, log, cycle, tracevars>>
bridgevars == <<scheduler_state, g_yield_task, g_event_responder_task, bpc, in_isr,
                bops, bcase>>
fmtvars == <<fstate, fstack, fout, fcall, fva>>
vars == <<heapvars, clockvars, faultvars, bridgevars, fmtvars>>

(***************************************************************************)
(* Bounds of the model.                                                    *)
(***************************************************************************)
\* Width of an address (uintptr_t, ptrdiff_t) in bits; 32 on the boards.
AddrBits == 16
\* The linker's address of _ebss.
Ebss == 64
\* Bytes between the initial heap end and the stack guard.
Room == 3
\* Number of _sbrk_r calls recorded in one behaviour.
MaxCalls == 3
\* Whole seconds the monotonic clock runs.
MaxSec == 1
\* Largest reading of the real-time clock, in seconds.
MaxRtc == 2
\* Number of sync_rtc calls in one behaviour.
MaxSyncs == 2

(***************************************************************************)
(* Program constants.                                                      *)
(***************************************************************************)
InitOffset == 32
GuardBytes == 8192
UsPerSec == 1000000
MaxDepth == 32
SafeClockHz == 16000000
BlinkMs == 300
PauseMs == 2000
ShutdownBlinks == 0
AssertBlinks == 1
MallocBlinks == 2
OverflowBlinks == 3

Ctx == {"task", "isr"}
AddrSpace == 2^AddrBits
\* The linker's address of _estack.
Estack == Ebss + InitOffset + GuardBytes + Room
\* reinterpret_cast<void*>(-1)
SbrkFail == AddrSpace - 1
\* The increments of ptrdiff_t the callers pass.
Incrs == {-(AddrSpace \div 2), -InitOffset, -1, 0, 1, 2}

(***************************************************************************)
(* Halt procedure: error_blink(n).                                         *)
(***************************************************************************)
Ev(op, ms) == [op |-> op, ms |-> ms]

\* The current cycle's history with one more event; a cycle ends with its pause.
Emit(c, e) == IF c # <<>> /\ c[Len(c)].op = "pause" THEN <<e>> ELSE Append(c, e)

\* A context runs unless the interrupt handler is active above it.
Runs(c) == c = "task" => pc["isr"] = "idle"

\* The first line of each fault entry point.
EntryLine(e) ==
    CASE e = "assert" -> "L214"
      [] e = "shutdown" -> "L234"
      [] e = "overflow" -> "L322"
      [] e = "malloc" -> "L332"

\* Context c calls the fault entry point e; the fault path runs in c from then on.
FaultCall(c, e) ==
    /\ fpc' = EntryLine(e)
    /\ fctx' = c
    /\ entry' = e
    /\ log' = <<>>
    /\ cycle' = <<>>

\* freertos::error_blink(n) is called.
ErrorBlinkCall(n) ==
    /\ fpc' = "eb_suspend"
    /\ nblink' = n

AfterPauseReturns == "eb_return"

\* while (true): where control goes after delay_ms(2'000UL)
AfterPause == "eb_for"

\* uint8_t loop counter
NextI(i) == (i + 1) % 256

OneMorePulse(i, n) == i <= n

\* for (uint8_t i {}; i < n; ++i): the loop condition
MorePulses(i, n) == i < n

EbSuspend ==
    /\ fpc = "eb_suspend" /\ Runs(fctx)
    /\ sched_suspended' = sched_suspended + 1
    /\ log' = Append(log, "suspend")
    /\ fpc' = "eb_pinmode"
    /\ UNCHANGED <<fctx, entry, nblink, iblink, depth, g_trace_lr, ctx_lr, basepri,
                   usb_prio, pin_mode, pin, arm_clock, cycle>>
    /\ UNCHANGED <<heapvars, clockvars, tracevars, bridgevars, fmtvars>>

EbPinMode ==
    /\ fpc = "eb_pinmode" /\ Runs(fctx)
    /\ pin_mode' = "OUTPUT"
    /\ log' = Append(log, "pinmode")
    /\ fpc' = "eb_clock"
    /\ UNCHANGED <<fctx, entry, nblink, iblink, depth, g_trace_lr, ctx_lr, basepri,
                   usb_prio, sched_suspended, pin, arm_clock, cycle>>
    /\ UNCHANGED <<heapvars, clockvars, tracevars, bridgevars, fmtvars>>

EbSetClock ==
    /\ fpc = "eb_clock" /\ Runs(fctx)
    /\ arm_clock' = SafeClockHz
    /\ log' = Append(log, "clock")
    /\ iblink' = 0
    /\ fpc' = "eb_for"
    /\ UNCHANGED <<fctx, entry, nblink, depth, g_trace_lr, ctx_lr, basepri,
                   usb_prio, sched_suspended, pin_mode, pin, cycle>>
    /\ UNCHANGED <<heapvars, clockvars, tracevars, bridgevars, fmtvars>>

EbFor ==
    /\ fpc = "eb_for" /\ Runs(fctx)
    /\ fpc' = IF MorePulses(iblink, nblink) THEN "eb_high" ELSE "eb_pause"
    /\ UNCHANGED <<fctx, entry, nblink, iblink, depth, g_trace_lr, ctx_lr, basepri,
                   usb_prio, sched_suspended, pin_mode, pin, arm_clock, log, cycle>>
    /\ UNCHANGED <<heapvars, clockvars, tracevars, bridgevars, fmtvars>>

EbHigh ==
    /\ fpc = "eb_high" /\ Runs(fctx)
    /\ pin' = TRUE
    /\ cycle' = Emit(cycle, Ev("high", 0))
    /\ fpc' = "eb_delay_on"
    /\ UNCHANGED <<fctx, entry, nblink, iblink, depth, g_trace_lr, ctx_lr, basepri,
                   usb_prio, sched_suspended, pin_mode, arm_clock, log>>
    /\ UNCHANGED <<heapvars, clockvars, tracevars, bridgevars, fmtvars>>

EbDelayOn ==
    /\ fpc = "eb_delay_on" /\ Runs(fctx)
    /\ cycle' = Emit(cycle, Ev("delay", BlinkMs))
    /\ fpc' = "eb_low"
    /\ UNCHANGED <<fctx, entry, nblink, iblink, depth, g_trace_lr, ctx_lr, basepri,
                   usb_prio, sched_suspended, pin_mode, pin, arm_clock, log>>
    /\ UNCHANGED <<heapvars, clockvars, tracevars, bridgevars, fmtvars>>

EbLow ==
    /\ fpc = "eb_low" /\ Runs(fctx)
    /\ pin' = FALSE
    /\ cycle' = Emit(cycle, Ev("low", 0))
    /\ fpc' = "eb_delay_off"
    /\ UNCHANGED <<fctx, entry, nblink, iblink, depth, g_trace_lr, ctx_lr, basepri,
                   usb_prio, sched_suspended, pin_mode, arm_clock, log>>
    /\ UNCHANGED <<heapvars, clockvars, tracevars, bridgevars, fmtvars>>

EbDelayOff ==
    /\ fpc = "eb_delay_off" /\ Runs(fctx)
    /\ cycle' = Emit(cycle, Ev("delay", BlinkMs))
    /\ iblink' = NextI(iblink)
    /\ fpc' = "eb_for"
    /\ UNCHANGED <<fctx, entry, nblink, depth, g_trace_lr, ctx_lr, basepri,
                   usb_prio, sched_suspended, pin_mode, pin, arm_clock, log>>
    /\ UNCHANGED <<heapvars, clockvars, tracevars, bridgevars, fmtvars>>

EbPause ==
    /\ fpc = "eb_pause" /\ Runs(fctx)
    /\ cycle' = Emit(cycle, Ev("pause", PauseMs))
    /\ iblink' = 0
    /\ fpc' = AfterPause
    /\ UNCHANGED <<fctx, entry, nblink, depth, g_trace_lr, ctx_lr, basepri,
                   usb_prio, sched_suspended, pin_mode, pin, arm_clock, log>>
    /\ UNCHANGED <<heapvars, clockvars, tracevars, bridgevars, fmtvars>>

ErrorBlink ==
    \/ EbSuspend
    \/ EbPinMode
    \/ EbSetClock
    \/ EbFor
    \/ EbHigh
    \/ EbDelayOn
    \/ EbLow
    \/ EbDelayOff
    \/ EbPause

\* vApplicationMallocFailedHook(): freertos::error_blink(2);
MallocFailedHook ==
    /\ fpc = "L332" /\ Runs(fctx)
    /\ ErrorBlinkCall(MallocBlinks)
    /\ UNCHANGED <<fctx, entry, iblink, depth, g_trace_lr, ctx_lr, basepri, usb_prio,
                   sched_suspended, pin_mode, pin, arm_clock, log, cycle>>
    /\ UNCHANGED <<heapvars, clockvars, tracevars, bridgevars, fmtvars>>

(***************************************************************************)
(* Heap grower: _sbrk_r(p_reent, incr), one action per line, run by the    *)
(* task or by an interrupt handler that preempts it.                       *)
(***************************************************************************)
\* Unsigned arithmetic of the address width.
Wrap(x) == x % AddrSpace

\* reinterpret_cast<uintptr_t>(_g_current_heap_end) + incr
Projected(end, i) == Wrap(end + i)

NoMemUpperOnly(end, i) == Projected(end, i) >= Estack - GuardBytes

NoMemAboveOnly(end, i) ==
    \/ Projected(end, i) > Estack - GuardBytes
    \/ Projected(end, i) < Ebss

\* The condition of the if: the request is rejected.
NoMem(end, i) ==
    \/ Projected(end, i) >= Estack - GuardBytes
    \/ Projected(end, i) < Ebss

KeepIrq(m) == m

\* __disable_irq(): the value of PRIMASK afterwards.
DisableIrq(m) == 1

EnableIrq(m) == 0

\* __set_PRIMASK(primask): the value of PRIMASK afterwards.
SetPrimask(m) == m

AdvanceNot(end, i) == end

\* _g_current_heap_end += incr
Advance(end, i) == Wrap(end + i)

\* void* previous_heap_end { _g_current_heap_end }
ReadHeapEnd(end) == end

\* Calls begun and not yet recorded in calls.
Undecided == {c \in Ctx : pc[c] \in {"L346", "L347", "L348", "L350", "L366"}}

\* The fault path, once entered, keeps its context for good.
Free(c) == fctx # c /\ Runs(c)

\* Whether the call is the interrupt handler's and found the task inside _sbrk_r.
Preempted(c) == c = "isr" /\ pc["task"] # "idle"

heaplocals == <<incr, saved_primask, previous_heap_end, ret, entry_primask>>

\* The call's argument and locals end with the call.
LocalsEnd(c) ==
    /\ incr' = [incr EXCEPT ![c] = 0]
    /\ saved_primask' = [saved_primask EXCEPT ![c] = 0]
    /\ previous_heap_end' = [previous_heap_end EXCEPT ![c] = 0]
    /\ entry_primask' = [entry_primask EXCEPT ![c] = 0]

\* Code around the heap grower masks and unmasks interrupts.
CallerSetsMask ==
    /\ pc["task"] = "idle" /\ Free("task")
    /\ primask' = 1 - primask
    /\ UNCHANGED <<g_current_heap_end, pc, heaplocals, errno_, malloc_failed_hook, calls>>
    /\ UNCHANGED <<clockvars, faultvars, bridgevars, fmtvars>>

\* The task calls _sbrk_r(incr), or an interrupt is taken whose handler calls it.
SbrkCall(c, i) ==
    /\ pc[c] = "idle" /\ Free(c)
    /\ c = "isr" => primask = 0
    /\ Len(calls) + Cardinality(Undecided) < MaxCalls
    /\ pc' = [pc EXCEPT ![c] = "L346"]
    /\ incr' = [incr EXCEPT ![c] = i]
    /\ entry_primask' = [entry_primask EXCEPT ![c] = primask]
    /\ UNCHANGED <<g_current_heap_end, primask, saved_primask, previous_heap_end, ret,
                   errno_, malloc_failed_hook, calls>>
    /\ UNCHANGED <<clockvars, faultvars, bridgevars, fmtvars>>

\* const auto primask = __get_PRIMASK();
SbrkGetPrimask(c) ==
    /\ pc[c] = "L346" /\ Free(c)
    /\ saved_primask' = [saved_primask EXCEPT ![c] = primask]
    /\ pc' = [pc EXCEPT ![c] = "L347"]
    /\ UNCHANGED <<g_current_heap_end, primask, incr, previous_heap_end, ret,
                   errno_, malloc_failed_hook, calls, entry_primask>>
    /\ UNCHANGED <<clockvars, faultvars, bridgevars, fmtvars>>

\* __disable_irq();
SbrkDisableIrq(c) ==
    /\ pc[c] = "L347" /\ Free(c)
    /\ primask' = DisableIrq(primask)
    /\ pc' = [pc EXCEPT ![c] = "L348"]
    /\ UNCHANGED <<g_current_heap_end, heaplocals, errno_, malloc_failed_hook, calls>>
    /\ UNCHANGED <<clockvars, faultvars, bridgevars, fmtvars>>

\* void* previous_heap_end { _g_current_heap_end };
SbrkReadEnd(c) ==
    /\ pc[c] = "L348" /\ Free(c)
    /\ previous_heap_end' = [previous_heap_end EXCEPT ![c] = ReadHeapEnd(g_current_heap_end)]
    /\ pc' = [pc EXCEPT ![c] = "L350"]
    /\ UNCHANGED <<g_current_heap_end, primask, incr, saved_primask, ret,
                   errno_, malloc_failed_hook, calls, entry_primask>>
    /\ UNCHANGED <<clockvars, faultvars, bridgevars, fmtvars>>

\* if (... >= &_estack - 8192 || ... < &_ebss)
SbrkCheck(c) ==
    /\ pc[c] = "L350" /\ Free(c)
    /\ IF NoMem(g_current_heap_end, incr[c])
       THEN /\ pc' = [pc EXCEPT ![c] = "L352"]
            /\ calls' = Append(calls, [ctx |-> c, incr |-> incr[c], ret |-> SbrkFail,
                                       ok |-> FALSE, over |-> Preempted(c)])
       ELSE /\ pc' = [pc EXCEPT ![c] = "L366"]
            /\ calls' = calls
    /\ UNCHANGED <<g_current_heap_end, primask, heaplocals, errno_, malloc_failed_hook>>
    /\ UNCHANGED <<clockvars, faultvars, bridgevars, fmtvars>>

\* __set_PRIMASK(primask); on the rejecting branch
SbrkFailRestore(c) ==
    /\ pc[c] = "L352" /\ Free(c)
    /\ primask' = SetPrimask(saved_primask[c])
    /\ pc' = [pc EXCEPT ![c] = "L354"]
    /\ UNCHANGED <<g_current_heap_end, heaplocals, errno_, malloc_failed_hook, calls>>
    /\ UNCHANGED <<clockvars, faultvars, bridgevars, fmtvars>>

\* EXC_PRINTF(PSTR("_sbrk_r(%d): no mem available.\r\n"), incr);
SbrkFailPrint(c) ==
    /\ pc[c] = "L354" /\ Free(c)
    /\ pc' = [pc EXCEPT ![c] = "L357"]
    /\ UNCHANGED <<g_current_heap_end, primask, heaplocals, errno_, malloc_failed_hook, calls>>
    /\ UNCHANGED <<clockvars, faultvars, bridgevars, fmtvars>>

\* ::vApplicationMallocFailedHook();
SbrkFailHook(c) ==
    /\ pc[c] = "L357" /\ Free(c)
    /\ malloc_failed_hook
    /\ pc' = [pc EXCEPT ![c] = "in_hook"]
    /\ FaultCall(c, "malloc")
    /\ UNCHANGED <<nblink, iblink, depth, g_trace_lr, ctx_lr, basepri, usb_prio,
                   sched_suspended, pin_mode, pin, arm_clock>>
    /\ UNCHANGED <<g_current_heap_end, primask, heaplocals, errno_, malloc_failed_hook, calls>>
    /\ UNCHANGED <<clockvars, tracevars, bridgevars, fmtvars>>

\* p_reent->_errno = ENOMEM;
SbrkFailErrno(c) ==
    /\ pc[c] = "L357" /\ Free(c)
    /\ ~malloc_failed_hook
    /\ errno_' = "ENOMEM"
    /\ pc' = [pc EXCEPT ![c] = "L363"]
    /\ UNCHANGED <<g_current_heap_end, primask, heaplocals, malloc_failed_hook, calls>>
    /\ UNCHANGED <<clockvars, faultvars, bridgevars, fmtvars>>

SbrkFailReturnsEnd(c) ==
    /\ pc[c] = "L363" /\ Free(c)
    /\ ret' = [ret EXCEPT ![c] = previous_heap_end[c]]
    /\ pc' = [pc EXCEPT ![c] = "idle"]
    /\ LocalsEnd(c)
    /\ UNCHANGED <<g_current_heap_end, primask, errno_, malloc_failed_hook, calls>>
    /\ UNCHANGED <<clockvars, faultvars, bridgevars, fmtvars>>

\* return reinterpret_cast<void*>(-1);
SbrkFailReturn(c) ==
    /\ pc[c] = "L363" /\ Free(c)
    /\ ret' = [ret EXCEPT ![c] = SbrkFail]
    /\ pc' = [pc EXCEPT ![c] = "idle"]
    /\ LocalsEnd(c)
    /\ UNCHANGED <<g_current_heap_end, primask, errno_, malloc_failed_hook, calls>>
    /\ UNCHANGED <<clockvars, faultvars, bridgevars, fmtvars>>

\* _g_current_heap_end += incr;
SbrkAdvance(c) ==
    /\ pc[c] = "L366" /\ Free(c)
    /\ g_current_heap_end' = Advance(g_current_heap_end, incr[c])
    /\ calls' = Append(calls, [ctx |-> c, incr |-> incr[c], ret |-> previous_heap_end[c],
                               ok |-> TRUE, over |-> Preempted(c)])
    /\ pc' = [pc EXCEPT ![c] = "L367"]
    /\ UNCHANGED <<primask, heaplocals, errno_, malloc_failed_hook>>
    /\ UNCHANGED <<clockvars, faultvars, bridgevars, fmtvars>>

\* __set_PRIMASK(primask); on the granting branch
SbrkRestore(c) ==
    /\ pc[c] = "L367" /\ Free(c)
    /\ primask' = SetPrimask(saved_primask[c])
    /\ pc' = [pc EXCEPT ![c] = "L369"]
    /\ UNCHANGED <<g_current_heap_end, heaplocals, errno_, malloc_failed_hook, calls>>
    /\ UNCHANGED <<clockvars, faultvars, bridgevars, fmtvars>>

\* return previous_heap_end;
SbrkReturn(c) ==
    /\ pc[c] = "L369" /\ Free(c)
    /\ ret' = [ret EXCEPT ![c] = previous_heap_end[c]]
    /\ pc' = [pc EXCEPT ![c] = "idle"]
    /\ LocalsEnd(c)
    /\ UNCHANGED <<g_current_heap_end, primask, errno_, malloc_failed_hook, calls>>
    /\ UNCHANGED <<clockvars, faultvars, bridgevars, fmtvars>>

Sbrk ==
    \/ \E c \in Ctx, i \in Incrs : SbrkCall(c, i)
    \/ \E c \in Ctx : SbrkGetPrimask(c)
    \/ \E c \in Ctx : SbrkDisableIrq(c)
    \/ \E c \in Ctx : SbrkReadEnd(c)
    \/ \E c \in Ctx : SbrkCheck(c)
    \/ \E c \in Ctx : SbrkFailRestore(c)
    \/ \E c \in Ctx : SbrkFailPrint(c)
    \/ \E c \in Ctx : SbrkFailHook(c)
    \/ \E c \in Ctx : SbrkFailErrno(c)
    \/ \E c \in Ctx : SbrkFailReturn(c)
    \/ \E c \in Ctx : SbrkAdvance(c)
    \/ \E c \in Ctx : SbrkRestore(c)
    \/ \E c \in Ctx : SbrkReturn(c)

(***************************************************************************)
(* Initial state and specifications.                                       *)
(***************************************************************************)
InitHeap ==
    /\ g_current_heap_end = Ebss + InitOffset
    /\ primask = 0
    /\ pc = [c \in Ctx |-> "idle"]
    /\ incr = [c \in Ctx |-> 0]
    /\ saved_primask = [c \in Ctx |-> 0]
    /\ previous_heap_end = [c \in Ctx |-> 0]
    /\ ret = [c \in Ctx |-> 0]
    /\ errno_ = "none"
    /\ malloc_failed_hook \in BOOLEAN
    /\ calls = <<>>
    /\ entry_primask = [c \in Ctx |-> 0]

InitClock ==
    /\ offset_ = [sec |-> 0, usec |-> 0]
    /\ mono_us = 0
    /\ gpc = "idle"
    /\ g_now = [sec |-> 0, usec |-> 0]
    /\ g_sec = 0
    /\ g_usec = 0
    /\ tv = [sec |-> 0, usec |-> 0]
    /\ last_sync = [done |-> FALSE, mono |-> 0, rtc |-> 0]
    /\ n_sync = 0
    /\ g_fresh = FALSE
    /\ snapshots = {}

InitFault ==
    /\ fpc = "normal"
    /\ fctx = "none"
    /\ entry = "none"
    /\ nblink = 0
    /\ iblink = 0
    /\ depth = 0
    /\ g_trace_lr \in {0}
    /\ ctx_lr = 0
    /\ basepri = 0
    /\ usb_prio = "default"
    /\ sched_suspended = 0
    /\ pin_mode = "INPUT"
    /\ pin = FALSE
    /\ arm_clock = 0
    /\ log = <<>>
    /\ cycle = <<>>
    /\ trace_ip = 0
    /\ trace_rc = "none"
    /\ lr_writes = 0

InitBridge ==
    /\ scheduler_state = "NOT_STARTED"
    /\ g_yield_task = 0
    /\ g_event_responder_task = 0
    /\ bpc = "idle"
    /\ in_isr = FALSE
    /\ bops = <<>>
    /\ bcase = [fn |-> "none", sched |-> "NOT_STARTED", target |-> 0, isr |-> FALSE]

InitFormat ==
    /\ fstate = "idle"
    /\ fstack = <<>>
    /\ fout = <<>>
    /\ fcall = [items |-> <<>>, args |-> <<>>]
    /\ fva = 0

Init == InitHeap /\ InitClock /\ InitFault /\ InitBridge /\ InitFormat

\* The heap grower with the halt its allocation-failure hook leads to.
NextHeap ==
    \/ CallerSetsMask
    \/ Sbrk
    \/ MallocFailedHook
    \/ ErrorBlink

SpecHeap == Init /\ [][NextHeap]_vars

(***************************************************************************)
(* Properties of the heap grower.                                          *)
(***************************************************************************)
HeapStart == Ebss + InitOffset
HeapLimit == Estack - GuardBytes

RECURSIVE SumGranted(_)
\* Sum of the increments of the granted calls of a history.
SumGranted(s) ==
    IF s = <<>> THEN 0
    ELSE SumGranted(SubSeq(s, 1, Len(s) - 1))
         + (IF s[Len(s)].ok THEN s[Len(s)].incr ELSE 0)

RECURSIVE SumIncr(_)
\* Sum of the increments of all calls of a history.
SumIncr(s) ==
    IF s = <<>> THEN 0 ELSE SumIncr(SubSeq(s, 1, Len(s) - 1)) + s[Len(s)].incr

\* The heap end the k-th recorded call found.
EndBefore(k) == HeapStart + SumGranted(SubSeq(calls, 1, k - 1))

\* C1: in every reachable state, whatever signed increments the task and the
\* interrupt handler passed to _sbrk_r, &_ebss <= _g_current_heap_end <=
\* &_estack - 8192.
C1_HeapEndInRegion ==
    /\ Ebss <= g_current_heap_end
    /\ g_current_heap_end <= HeapLimit

\* A negative increment was granted and brought the heap end down to &_ebss.
C1_Witness ==
    /\ g_current_heap_end = Ebss
    /\ \E k \in 1..Len(calls) : calls[k].ok /\ calls[k].incr < 0

\* C2 as stated: the ranges [returned, returned + incr) granted to all
\* successful calls are pairwise disjoint, and the heap end is the initial
\* boundary plus the increments of the successful calls.
C2_AllGrantsDisjoint ==
    /\ \A j, k \in 1..Len(calls) :
         (j < k /\ calls[j].ok /\ calls[k].ok /\ calls[j].incr > 0 /\ calls[k].incr > 0)
         => \/ calls[j].ret + calls[j].incr <= calls[k].ret
            \/ calls[k].ret + calls[k].incr <= calls[j].ret
    /\ g_current_heap_end = HeapStart + SumGranted(calls)

\* C2 amended: the check and the update are one step no interrupt splits: two
\* granted ranges are disjoint, the later one starting at or after the end of
\* the earlier one, unless a granted negative increment came between the two
\* calls; and the heap end is always the initial boundary plus the increments
\* of the granted calls.
C2_GrantsDisjointUntilShrink ==
    /\ \A j, k \in 1..Len(calls) :
         (/\ j < k /\ calls[j].ok /\ calls[k].ok
          /\ calls[j].incr > 0 /\ calls[k].incr > 0
          /\ \A m \in (j + 1)..(k - 1) : calls[m].ok => calls[m].incr >= 0)
         => calls[j].ret + calls[j].incr <= calls[k].ret
    /\ g_current_heap_end = HeapStart + SumGranted(calls)

\* The handler's call was granted while the task's call was under way (before
\* it masked interrupts), and the task's call was granted after it.
C2_Witness ==
    \E k \in 1..(Len(calls) - 1) :
        /\ calls[k].ctx = "isr" /\ calls[k].ok /\ calls[k].incr > 0
        /\ calls[k].over
        /\ calls[k + 1].ctx = "task" /\ calls[k + 1].ok /\ calls[k + 1].incr > 0

\* The k-th call was granted and returned the initial boundary plus the
\* increments before it.
ReturnsPriorSum(k) ==
    /\ calls[k].ok
    /\ calls[k].ret = HeapStart + SumIncr(SubSeq(calls, 1, k - 1))

\* C3 as stated: calls with positive increments summing to at most the
\* available region size (&_estack - 8192 - (&_ebss + 32)) all succeed and
\* return the initial boundary plus the sum of the prior increments.
C3_UpToRegionSize ==
    ((\A k \in 1..Len(calls) : calls[k].incr > 0) /\ SumIncr(calls) <= HeapLimit - HeapStart)
    => \A k \in 1..Len(calls) : ReturnsPriorSum(k)

\* C3 amended: calls with positive increments summing to less than the
\* available region size all succeed and return the initial boundary plus the
\* sum of the prior increments (so the returned pointers strictly increase).
C3_BelowRegionSize ==
    ((\A k \in 1..Len(calls) : calls[k].incr > 0) /\ SumIncr(calls) < HeapLimit - HeapStart)
    => \A k \in 1..Len(calls) : ReturnsPriorSum(k)

\* Several positive requests were decided, one byte short of the region size.
C3_Witness ==
    /\ Len(calls) >= 2
    /\ \A k \in 1..Len(calls) : calls[k].incr > 0
    /\ SumIncr(calls) = HeapLimit - HeapStart - 1
    /\ \A c \in Ctx : pc[c] = "idle"

\* C4: a request whose projected boundary _g_current_heap_end + incr is at or
\* above &_estack - 8192, or below &_ebss, takes the rejecting branch, and no
\* step of that branch changes _g_current_heap_end; it returns (void*)-1.
C4_RejectedLeavesHeapEnd ==
    [][\A c \in Ctx :
        /\ (/\ pc[c] = "L350" /\ pc'[c] # "L350"
            /\ \/ g_current_heap_end + incr[c] >= HeapLimit
               \/ g_current_heap_end + incr[c] < Ebss)
           => (pc'[c] = "L352" /\ g_current_heap_end' = g_current_heap_end)
        /\ (pc[c] \in {"L352", "L354", "L357", "L363"} /\ pc'[c] # pc[c])
           => g_current_heap_end' = g_current_heap_end
        /\ (pc[c] = "L363" /\ pc'[c] # pc[c]) => ret'[c] = SbrkFail]_vars

\* A request that would land exactly on &_estack - 8192 was rejected and has
\* returned, the heap end being what that call found.
C4_Witness ==
    \E k \in 1..Len(calls) :
        /\ ~calls[k].ok
        /\ EndBefore(k) + calls[k].incr = HeapLimit
        /\ k = Len(calls)
        /\ pc[calls[k].ctx] = "idle"
        /\ ret[calls[k].ctx] = SbrkFail
        /\ g_current_heap_end = EndBefore(k)

\* C5 as stated: with or without the allocation-failure hook, a rejected
\* request never leads to the halt loop (its caller goes on).
C5_RejectionNeverHalts ==
    /\ fpc = "normal"
    /\ \A c \in Ctx : pc[c] # "in_hook"

\* C5 amended: without the allocation-failure hook a rejected request sets
\* errno to ENOMEM, returns (void*)-1 and never leads to the halt loop; with
\* the hook configured a rejected request calls vApplicationMallocFailedHook,
\* which enters error_blink(2), and the request never returns.
C5_RejectionByConfiguration ==
    /\ ~malloc_failed_hook =>
         /\ fpc = "normal"
         /\ \A c \in Ctx :
              /\ pc[c] # "in_hook"
              /\ pc[c] = "L363" => errno_ = "ENOMEM"
              /\ (/\ pc[c] = "idle"
                  /\ \E k \in 1..Len(calls) :
                       /\ calls[k].ctx = c /\ ~calls[k].ok
                       /\ \A m \in (k + 1)..Len(calls) : calls[m].ctx # c)
                 => (ret[c] = SbrkFail /\ errno_ = "ENOMEM")
    /\ malloc_failed_hook =>
         /\ errno_ = "none"
         /\ \A c \in Ctx :
              /\ pc[c] # "L363"
              /\ \A k \in 1..Len(calls) :
                   (/\ calls[k].ctx = c /\ ~calls[k].ok
                    /\ \A m \in (k + 1)..Len(calls) : calls[m].ctx # c)
                   => pc[c] \in {"L352", "L354", "L357", "in_hook"}
              /\ pc[c] = "in_hook" => (fpc # "normal" /\ entry = "malloc")
         /\ fpc # "normal" => (fctx \in Ctx /\ pc[fctx] = "in_hook")
         /\ fpc \notin {"normal", "L332"} => nblink = MallocBlinks

\* Without the hook a rejected request has returned (void*)-1 with errno set.
C5_Witness ==
    /\ ~malloc_failed_hook
    /\ \E c \in Ctx : pc[c] = "idle" /\ ret[c] = SbrkFail /\ errno_ = "ENOMEM"
    /\ Len(calls) > 0 /\ ~calls[Len(calls)].ok

\* C20: _sbrk_r returns with PRIMASK as it was when it was called, on the
\* granting and on the rejecting path, so a caller that had interrupts
\* masked still has them masked; and the rejecting path's diagnostic print
\* and allocation-failure hook run with PRIMASK already restored.
C20_PrimaskRestored ==
    [][\A c \in Ctx :
        /\ (pc[c] # "idle" /\ pc'[c] = "idle") => primask' = entry_primask[c]
        /\ (pc[c] \in {"L354", "L357"} /\ pc'[c] # pc[c]) =>
             (primask = entry_primask[c] /\ primask' = primask)]_vars

\* A rejected call of a caller that had interrupts masked is about to return.
C20_Witness ==
    /\ pc["task"] = "L363"
    /\ entry_primask["task"] = 1
    /\ primask = 1

(***************************************************************************)
(* Wall clock: clock::sync_rtc() and _gettimeofday().                      *)
(***************************************************************************)
Timeval(s, u) == [sec |-> s, usec |-> u]

\* { static_cast<time_t>(now_us / 1'000'000UL), static_cast<suseconds_t>(now_us % 1'000'000UL) }
TimevalOfUs(us) == Timeval(us \div UsPerSec, us % UsPerSec)

\* timercmp(a, b, <)
TimerLess(a, b) == IF a.sec = b.sec THEN a.usec < b.usec ELSE a.sec < b.sec

\* timersub(a, b, result)
TimerSub(a, b) ==
    IF a.usec - b.usec < 0
    THEN Timeval(a.sec - b.sec - 1, a.usec - b.usec + UsPerSec)
    ELSE Timeval(a.sec - b.sec, a.usec - b.usec)

\* timeradd(a, b, result)
TimerAdd(a, b) ==
    IF a.usec + b.usec >= UsPerSec
    THEN Timeval(a.sec + b.sec + 1, a.usec + b.usec - UsPerSec)
    ELSE Timeval(a.sec + b.sec, a.usec + b.usec)

\* The offset sync_rtc stores for the readings now and rtc.
SyncOffset(now, rtc) ==
    IF TimerLess(now, rtc) THEN TimerSub(rtc, now) ELSE TimerSub(now, rtc)

\* The readings of the microsecond counter the model takes.
MonoTimes == {s * UsPerSec + u : s \in 0..MaxSec, u \in {0, 1, UsPerSec - 1}}

\* Whether _gettimeofday is between taking the pointer to offset_ and its last read.
Reading == gpc \in {"G383", "G386", "G386s", "G386u"}

\* The microsecond counter advances.
Tick ==
    /\ \E t \in MonoTimes : t > mono_us /\ mono_us' = t
    /\ UNCHANGED <<offset_, gpc, g_now, g_sec, g_usec, tv, last_sync, n_sync, g_fresh,
                   snapshots>>
    /\ UNCHANGED <<heapvars, faultvars, bridgevars, fmtvars>>

\* clock::sync_rtc(), whole: it runs between taskENTER_CRITICAL and
\* taskEXIT_CRITICAL; r is what rtc_get() returns.
SyncRtc(r) ==
    /\ n_sync < MaxSyncs
    /\ n_sync' = n_sync + 1
    /\ g_fresh' = FALSE
    /\ offset_' = SyncOffset(TimevalOfUs(mono_us), Timeval(r, 0))
    /\ last_sync' = [done |-> TRUE, mono |-> mono_us, rtc |-> r]
    /\ snapshots' = IF Reading THEN snapshots \cup {offset_'} ELSE snapshots
    /\ UNCHANGED <<mono_us, gpc, g_now, g_sec, g_usec, tv>>
    /\ UNCHANGED <<heapvars, faultvars, bridgevars, fmtvars>>

\* const auto p_offset { freertos::clock::get_offset() };
GtodGetOffset ==
    /\ gpc \in {"idle", "done"}
    /\ gpc' = "G383"
    /\ g_fresh' = last_sync.done
    /\ snapshots' = {offset_}
    /\ g_now' = Timeval(0, 0) /\ g_sec' = 0 /\ g_usec' = 0 /\ tv' = Timeval(0, 0)
    /\ UNCHANGED <<offset_, mono_us, last_sync, n_sync>>
    /\ UNCHANGED <<heapvars, faultvars, bridgevars, fmtvars>>

\* const auto now_us { freertos::get_us() }; const timeval now { ... };
GtodNow ==
    /\ gpc = "G383"
    /\ g_now' = TimevalOfUs(mono_us)
    /\ gpc' = "G386"
    /\ UNCHANGED <<offset_, mono_us, g_sec, g_usec, tv, last_sync, n_sync, g_fresh,
                   snapshots>>
    /\ UNCHANGED <<heapvars, faultvars, bridgevars, fmtvars>>

\* timeradd(p_offset, &now, tv): the load of p_offset->tv_sec
GtodReadSec ==
    /\ gpc \in {"G386", "G386u"}
    /\ g_sec' = offset_.sec
    /\ gpc' = IF gpc = "G386" THEN "G386s" ELSE "G386a"
    /\ UNCHANGED <<offset_, mono_us, g_now, g_usec, tv, last_sync, n_sync, g_fresh,
                   snapshots>>
    /\ UNCHANGED <<heapvars, faultvars, bridgevars, fmtvars>>

\* timeradd(p_offset, &now, tv): the load of p_offset->tv_usec
GtodReadUsec ==
    /\ gpc \in {"G386", "G386s"}
    /\ g_usec' = offset_.usec
    /\ gpc' = IF gpc = "G386" THEN "G386u" ELSE "G386a"
    /\ UNCHANGED <<offset_, mono_us, g_now, g_sec, tv, last_sync, n_sync, g_fresh,
                   snapshots>>
    /\ UNCHANGED <<heapvars, faultvars, bridgevars, fmtvars>>

\* timeradd(p_offset, &now, tv): the sum stored to *tv; return 0;
GtodReturn ==
    /\ gpc = "G386a"
    /\ tv' = TimerAdd(Timeval(g_sec, g_usec), g_now)
    /\ gpc' = "done"
    /\ UNCHANGED <<offset_, mono_us, g_now, g_sec, g_usec, last_sync, n_sync, g_fresh,
                   snapshots>>
    /\ UNCHANGED <<heapvars, faultvars, bridgevars, fmtvars>>

NextClock ==
    \/ Tick
    \/ \E r \in 0..MaxRtc : SyncRtc(r)
    \/ GtodGetOffset
    \/ GtodNow
    \/ GtodReadSec
    \/ GtodReadUsec
    \/ GtodReturn

SpecClock == Init /\ [][NextClock]_vars

(***************************************************************************)
(* Properties of the wall clock.                                           *)
(***************************************************************************)
\* C6: after sync_rtc ran at monotonic time T_m with the real-time clock at
\* T_r, T_m + offset_ = T_r, whether T_m < T_r or T_m >= T_r; and a
\* _gettimeofday at monotonic time T, with no sync since it began, returns
\* T_r + (T - T_m).
C6_OffsetIsRealMinusMonotonic ==
    /\ last_sync.done =>
         TimerAdd(offset_, TimevalOfUs(last_sync.mono)) = Timeval(last_sync.rtc, 0)
    /\ (gpc = "done" /\ g_fresh) =>
         tv = TimevalOfUs(last_sync.rtc * UsPerSec
                          + (g_now.sec * UsPerSec + g_now.usec) - last_sync.mono)

\* C7: the (tv_sec, tv_usec) pair _gettimeofday used is one of the values
\* offset_ held while it ran: the one before a sync or the one after it.
C7_OffsetReadWhole ==
    gpc \in {"G386a", "done"} => Timeval(g_sec, g_usec) \in snapshots

(***************************************************************************)
(* Fault path: assert_blink, trace_fcn, the scheduler hooks, mcu_shutdown. *)
(***************************************************************************)
\* void prvTaskExitError(): its address, a Thumb function pointer.
PrvTaskExitError == 41

\* x & ~1
ClearBit0(x) == x - (x % 2)

\* reinterpret_cast<uintptr_t>(&prvTaskExitError) & ~1
TaskEntryIp == ClearBit0(PrvTaskExitError)

\* The instruction pointers the unwinder presents, frame by frame.
FrameIps == {0, TaskEntryIp, PrvTaskExitError, TaskEntryIp + 2}

\* The link registers a fault handler leaves in g_trace_lr before the assert.
TraceLrs == {0, TaskEntryIp + 4}

\* if (ip == (... & ~1) || ip == 0)
IsTaskEntry(ip) == ip = TaskEntryIp \/ ip = 0

TraceFcnCutsLate(ip, d) ==
    IF IsTaskEntry(ip) THEN "END_OF_STACK"
    ELSE IF d = MaxDepth THEN "END_OF_STACK"
    ELSE "NO_REASON"

\* What trace_fcn returns for a frame at ip when *p_depth is d.
TraceFcnResult(ip, d) ==
    IF IsTaskEntry(ip) THEN "END_OF_STACK"
    ELSE IF d + 1 = MaxDepth THEN "END_OF_STACK"
    ELSE "NO_REASON"

AssertBlinkSkipsTrace(l) ==
    CASE l = "L214" -> "L216"
      [] l = "L216" -> "L219"
      [] l = "L219" -> "L220"
      [] l = "L220" -> "L221"
      [] l = "L221" -> "L223"
      [] l = "L223" -> "L224"
      [] l = "L224" -> "L230"
      [] l = "L226" -> "L227"
      [] l = "L227" -> "L228"
      [] l = "L228" -> "L230"

\* The statement that follows line l of assert_blink.
AssertBlinkNext(l) ==
    CASE l = "L214" -> "L216"
      [] l = "L216" -> "L219"
      [] l = "L219" -> "L220"
      [] l = "L220" -> "L221"
      [] l = "L221" -> "L223"
      [] l = "L223" -> "L224"
      [] l = "L224" -> "L226"
      [] l = "L226" -> "L227"
      [] l = "L227" -> "L228"
      [] l = "L228" -> "L230"

\* The statement that follows line l of vApplicationStackOverflowHook.
OverflowHookNext(l) ==
    CASE l = "L322" -> "L323"
      [] l = "L323" -> "L324"
      [] l = "L324" -> "L326"

\* if (g_trace_lr): whether the frame at ip reaches line 193 and finds it set.
SetsLr(ip, lr) == ~IsTaskEntry(ip) /\ lr # 0

LrKept(lr) == lr

\* g_trace_lr = 0; after _Unwind_SetGR(ctx, 14, g_trace_lr)
LrAfterUse(lr) == 0

\* What the fault path leaves alone outside its own position and history.
faultregs == <<nblink, iblink, depth, g_trace_lr, ctx_lr, basepri, usb_prio,
               sched_suspended, pin_mode, pin, arm_clock>>

\* An assertion fails in context c, g_trace_lr holding lr.
AssertBlinkCall(c, lr) ==
    /\ fpc = "normal" /\ pc[c] = "idle" /\ Runs(c)
    /\ FaultCall(c, "assert")
    /\ g_trace_lr' = lr
    /\ UNCHANGED <<nblink, iblink, depth, ctx_lr, basepri, usb_prio,
                   sched_suspended, pin_mode, pin, arm_clock>>
    /\ UNCHANGED <<heapvars, clockvars, tracevars, bridgevars, fmtvars>>

\* Context c calls mcu_shutdown(), or the scheduler calls one of its hooks in c.
HookCall(c, e) ==
    /\ fpc = "normal" /\ pc[c] = "idle" /\ Runs(c)
    /\ e = "malloc" => malloc_failed_hook
    /\ FaultCall(c, e)
    /\ UNCHANGED faultregs
    /\ UNCHANGED <<heapvars, clockvars, tracevars, bridgevars, fmtvars>>

\* portDISABLE_INTERRUPTS();
AbDisableInterrupts ==
    /\ fpc = "L214" /\ Runs(fctx)
    /\ basepri' = 1
    /\ log' = Append(log, "irq_off")
    /\ fpc' = AssertBlinkNext(fpc)
    /\ UNCHANGED <<fctx, entry, nblink, iblink, depth, g_trace_lr, ctx_lr, usb_prio,
                   sched_suspended, pin_mode, pin, arm_clock, cycle>>
    /\ UNCHANGED <<heapvars, clockvars, tracevars, bridgevars, fmtvars>>

\* NVIC_SET_PRIORITY(IRQ_USB1, ...);
AbSetPriority ==
    /\ fpc = "L216" /\ Runs(fctx)
    /\ usb_prio' = "lowered"
    /\ log' = Append(log, "usb_prio")
    /\ fpc' = AssertBlinkNext(fpc)
    /\ UNCHANGED <<fctx, entry, nblink, iblink, depth, g_trace_lr, ctx_lr, basepri,
                   sched_suspended, pin_mode, pin, arm_clock, cycle>>
    /\ UNCHANGED <<heapvars, clockvars, tracevars, bridgevars, fmtvars>>

\* The EXC_PRINTF calls of assert_blink: the assert line, the function, the
\* expression, the "Stack trace:" header, and the line end after the trace.
AbPrint ==
    /\ fpc \in {"L219", "L220", "L221", "L223", "L228"} /\ Runs(fctx)
    /\ log' = Append(log, "print")
    /\ fpc' = AssertBlinkNext(fpc)
    /\ UNCHANGED <<fctx, entry, cycle>>
    /\ UNCHANGED faultregs
    /\ UNCHANGED <<heapvars, clockvars, tracevars, bridgevars, fmtvars>>

\* EXC_FLUSH();
AbFlush ==
    /\ fpc = "L224" /\ Runs(fctx)
    /\ log' = Append(log, "flush")
    /\ fpc' = AssertBlinkNext(fpc)
    /\ UNCHANGED <<fctx, entry, cycle>>
    /\ UNCHANGED faultregs
    /\ UNCHANGED <<heapvars, clockvars, tracevars, bridgevars, fmtvars>>

\* int depth {}; _Unwind_Backtrace(&trace_fcn, &depth) is called
AbBacktrace ==
    /\ fpc = "L226" /\ Runs(fctx)
    /\ depth' = 0
    /\ fpc' = AssertBlinkNext(fpc)
    /\ UNCHANGED <<fctx, entry, nblink, iblink, g_trace_lr, ctx_lr, basepri, usb_prio,
                   sched_suspended, pin_mode, pin, arm_clock, log, cycle>>
    /\ UNCHANGED <<heapvars, clockvars, tracevars, bridgevars, fmtvars>>

\* trace_fcn(ctx, &depth), whole, for a frame whose _Unwind_GetIP is ip
TraceFcn(ip) ==
    /\ fpc = "L227" /\ Runs(fctx)
    /\ log' = Append(log, "frame")
    /\ depth' = IF IsTaskEntry(ip) THEN depth ELSE depth + 1
    /\ ctx_lr' = IF SetsLr(ip, g_trace_lr) THEN g_trace_lr ELSE ctx_lr
    /\ g_trace_lr' = IF SetsLr(ip, g_trace_lr) THEN LrAfterUse(g_trace_lr) ELSE g_trace_lr
    /\ lr_writes' = IF SetsLr(ip, g_trace_lr) THEN lr_writes + 1 ELSE lr_writes
    /\ trace_ip' = ip
    /\ trace_rc' = TraceFcnResult(ip, depth)
    /\ fpc' = IF TraceFcnResult(ip, depth) = "NO_REASON" THEN fpc ELSE AssertBlinkNext(fpc)
    /\ UNCHANGED <<fctx, entry, nblink, iblink, basepri, usb_prio,
                   sched_suspended, pin_mode, pin, arm_clock, cycle>>
    /\ UNCHANGED <<heapvars, clockvars, bridgevars, fmtvars>>

\* _Unwind_Backtrace finds no further frame and returns.
UnwindEnds ==
    /\ fpc = "L227" /\ Runs(fctx)
    /\ fpc' = AssertBlinkNext(fpc)
    /\ UNCHANGED <<fctx, entry, log, cycle>>
    /\ UNCHANGED faultregs
    /\ UNCHANGED <<heapvars, clockvars, tracevars, bridgevars, fmtvars>>

\* freertos::error_blink(1);
AbErrorBlink ==
    /\ fpc = "L230" /\ Runs(fctx)
    /\ ErrorBlinkCall(AssertBlinks)
    /\ UNCHANGED <<fctx, entry, iblink, depth, g_trace_lr, ctx_lr, basepri, usb_prio,
                   sched_suspended, pin_mode, pin, arm_clock, log, cycle>>
    /\ UNCHANGED <<heapvars, clockvars, tracevars, bridgevars, fmtvars>>

\* mcu_shutdown(): freertos::error_blink(0);
McuShutdown ==
    /\ fpc = "L234" /\ Runs(fctx)
    /\ ErrorBlinkCall(ShutdownBlinks)
    /\ UNCHANGED <<fctx, entry, iblink, depth, g_trace_lr, ctx_lr, basepri, usb_prio,
                   sched_suspended, pin_mode, pin, arm_clock, log, cycle>>
    /\ UNCHANGED <<heapvars, clockvars, tracevars, bridgevars, fmtvars>>

\* std::memcpy(taskname, task_name, configMAX_TASK_NAME_LEN);
SoCopyName ==
    /\ fpc = "L322" /\ Runs(fctx)
    /\ fpc' = OverflowHookNext(fpc)
    /\ UNCHANGED <<fctx, entry, log, cycle>>
    /\ UNCHANGED faultregs
    /\ UNCHANGED <<heapvars, clockvars, tracevars, bridgevars, fmtvars>>

\* EXC_PRINTF(PSTR("STACK OVERFLOW: %s\r\n"), taskname);
SoPrint ==
    /\ fpc = "L323" /\ Runs(fctx)
    /\ log' = Append(log, "print")
    /\ fpc' = OverflowHookNext(fpc)
    /\ UNCHANGED <<fctx, entry, cycle>>
    /\ UNCHANGED faultregs
    /\ UNCHANGED <<heapvars, clockvars, tracevars, bridgevars, fmtvars>>

\* EXC_FLUSH();
SoFlush ==
    /\ fpc = "L324" /\ Runs(fctx)
    /\ log' = Append(log, "flush")
    /\ fpc' = OverflowHookNext(fpc)
    /\ UNCHANGED <<fctx, entry, cycle>>
    /\ UNCHANGED faultregs
    /\ UNCHANGED <<heapvars, clockvars, tracevars, bridgevars, fmtvars>>

\* freertos::error_blink(3);
SoErrorBlink ==
    /\ fpc = "L326" /\ Runs(fctx)
    /\ ErrorBlinkCall(OverflowBlinks)
    /\ UNCHANGED <<fctx, entry, iblink, depth, g_trace_lr, ctx_lr, basepri, usb_prio,
                   sched_suspended, pin_mode, pin, arm_clock, log, cycle>>
    /\ UNCHANGED <<heapvars, clockvars, tracevars, bridgevars, fmtvars>>

\* The steps of the fault path once an entry point was called.
FaultStep ==
    \/ AbDisableInterrupts
    \/ AbSetPriority
    \/ AbPrint
    \/ AbFlush
    \/ AbBacktrace
    \/ \E ip \in FrameIps : TraceFcn(ip)
    \/ UnwindEnds
    \/ AbErrorBlink
    \/ McuShutdown
    \/ SoCopyName
    \/ SoPrint
    \/ SoFlush
    \/ SoErrorBlink
    \/ MallocFailedHook
    \/ ErrorBlink

NextFault ==
    \/ \E c \in Ctx, lr \in TraceLrs : AssertBlinkCall(c, lr)
    \/ \E c \in Ctx, e \in {"shutdown", "overflow", "malloc"} : HookCall(c, e)
    \/ FaultStep

SpecFault == Init /\ [][NextFault]_vars

\* The processor keeps executing the fault path: the print, flush and delay
\* collaborators return.
SpecFaultLive == SpecFault /\ WF_vars(FaultStep)

(***************************************************************************)
(* Properties of the fault path.                                           *)
(***************************************************************************)
\* The positions inside error_blink's while (true) loop.
BlinkLoop == {"eb_for", "eb_high", "eb_delay_on", "eb_low", "eb_delay_off", "eb_pause"}

\* The positions inside error_blink.
InErrorBlink == {"eb_suspend", "eb_pinmode", "eb_clock"} \cup BlinkLoop

\* The phase of assert_blink at position l: 0 NORMAL, 1 INTERRUPTS_DISABLED,
\* 2 TRACE_HEADER_EMITTED, 3 UNWINDING, 4 HALTED; 5 is anywhere else (it returned).
Phase(l) ==
    CASE l \in {"normal", "L214"} -> 0
      [] l \in {"L216", "L219", "L220", "L221", "L223"} -> 1
      [] l \in {"L224", "L226"} -> 2
      [] l \in {"L227", "L228"} -> 3
      [] l \in {"L230"} \cup InErrorBlink -> 4
      [] OTHER -> 5

\* C8: every step of an execution of assert_blink stays in its phase or
\* enters the next one of NORMAL, INTERRUPTS_DISABLED, TRACE_HEADER_EMITTED,
\* UNWINDING, HALTED; none is skipped or revisited, assert_blink never
\* returns, and HALTED is never left.
C8_PhasesInOrder ==
    [][entry' = "assert" =>
        /\ Phase(fpc') \in {Phase(fpc), Phase(fpc) + 1}
        /\ Phase(fpc') <= 4
        /\ Phase(fpc) = 4 => Phase(fpc') = 4
        /\ Phase(fpc') = 1 => basepri' = 1
        /\ Phase(fpc') = 2 => Len(SelectSeq(log', LAMBDA e : e = "print")) = 4
        /\ Phase(fpc') >= 3 => Len(SelectSeq(log', LAMBDA e : e = "flush")) = 1]_vars

\* assert_blink reached the blink loop after a walk of several frames.
C8_Witness ==
    /\ entry = "assert"
    /\ fpc = "eb_pause"
    /\ depth >= 2
    /\ Len(SelectSeq(log, LAMBDA e : e = "frame")) >= 2

\* C9: from each fatal entry point (assert_blink, the stack-overflow hook,
\* the allocation-failure hook, mcu_shutdown) execution eventually reaches
\* the error_blink loop, whatever frames the unwinder presents, and the loop
\* is never left.
C9_ReachesBlinkLoop ==
    /\ \A e \in {"assert", "overflow", "malloc", "shutdown"} :
         (entry = e) ~> (entry = e /\ fpc \in BlinkLoop)
    /\ [](fpc \in BlinkLoop => [](fpc \in BlinkLoop))

\* assert_blink blinks after a walk that never met a terminating frame and
\* was cut at 32 frames.
C9_Witness ==
    /\ entry = "assert"
    /\ fpc \in BlinkLoop
    /\ depth = MaxDepth

\* n pulses: pin high, 300 ms, pin low, 300 ms.
RECURSIVE Pulses(_)
Pulses(n) ==
    IF n = 0 THEN <<>>
    ELSE Pulses(n - 1) \o <<Ev("high", 0), Ev("delay", BlinkMs),
                             Ev("low", 0), Ev("delay", BlinkMs)>>

IsPrefix(a, b) == Len(a) <= Len(b) /\ SubSeq(b, 1, Len(a)) = a

Count(q, e) == Len(SelectSeq(q, LAMBDA x : x = e))

\* C10: error_blink(n) suspends the scheduler, makes the debug pin an output
\* and forces the clock rate, in this order and each exactly once, before the
\* first pin write; then every cycle is exactly n pulses (pin high, 300 ms,
\* pin low, 300 ms) followed by one 2000 ms delay; the scheduler stays
\* suspended.
C10_BlinkProtocol ==
    /\ fpc \in BlinkLoop =>
         /\ Len(log) >= 3
         /\ SubSeq(log, Len(log) - 2, Len(log)) = <<"suspend", "pinmode", "clock">>
         /\ Count(log, "suspend") = 1 /\ Count(log, "pinmode") = 1 /\ Count(log, "clock") = 1
         /\ sched_suspended = 1 /\ pin_mode = "OUTPUT" /\ arm_clock = SafeClockHz
    /\ fpc \notin BlinkLoop => (cycle = <<>> /\ pin = FALSE)
    /\ IsPrefix(cycle, Pulses(nblink) \o <<Ev("pause", PauseMs)>>)
    /\ fpc = "eb_pause" =>
         \/ cycle = Pulses(nblink)
         \/ nblink = 0 /\ cycle = <<Ev("pause", PauseMs)>>

\* error_blink(3) has completed a cycle of three pulses and the pause.
C10_Witness ==
    /\ nblink = OverflowBlinks
    /\ fpc = "eb_for"
    /\ cycle = Pulses(OverflowBlinks) \o <<Ev("pause", PauseMs)>>

\* The frame lines ('#<index>') the running walk has emitted: one per call of trace_fcn.
FrameLines == Count(log, "frame")

\* C11 as stated: trace_fcn ends the walk at a frame exactly when the frame's
\* instruction pointer is the task-entry address or zero, it continues on
\* every other frame, and no walk emits more than 32 frame lines.
C11_StopsOnlyAtTaskEntry ==
    /\ trace_rc # "none" =>
         /\ trace_rc = "END_OF_STACK" <=> IsTaskEntry(trace_ip)
         /\ trace_rc = "END_OF_STACK" => fpc # "L227"
    /\ FrameLines <= MaxDepth

\* C11 as amended: trace_fcn ends the walk at the first frame whose
\* instruction pointer is the task-entry address or zero when that frame is
\* among the first 32, and otherwise at the 32nd frame; it continues on every
\* frame before that one; no walk emits more than 32 frame lines.
C11_StopsAtTaskEntryOrCap ==
    /\ trace_rc # "none" =>
         /\ trace_rc = "END_OF_STACK" <=> (IsTaskEntry(trace_ip) \/ FrameLines = MaxDepth)
         /\ trace_rc = "END_OF_STACK" => fpc # "L227"
    /\ FrameLines <= MaxDepth

\* trace_fcn ended a walk at a task-entry frame that came after other frames.
C11_Witness ==
    /\ trace_rc = "END_OF_STACK"
    /\ IsTaskEntry(trace_ip)
    /\ FrameLines = 3
    /\ depth = 2

\* C18: during one frame walk register 14 of the unwind context is written
\* at most once, at the first frame that is not the walk's end and finds
\* g_trace_lr non-zero; g_trace_lr is zero after that step; a frame that finds
\* g_trace_lr zero leaves the unwind context's registers as they were.
C18_LrOverrideOnce ==
    [][FrameLines' = FrameLines + 1 =>
        /\ lr_writes' <= 1
        /\ (g_trace_lr # 0 /\ ~IsTaskEntry(trace_ip')) =>
             (lr_writes' = lr_writes + 1 /\ ctx_lr' = g_trace_lr /\ g_trace_lr' = 0)
        /\ (g_trace_lr = 0 \/ IsTaskEntry(trace_ip')) =>
             (lr_writes' = lr_writes /\ ctx_lr' = ctx_lr /\ g_trace_lr' = g_trace_lr)]_vars

\* The override was used at the first frame and two more frames were walked.
C18_Witness ==
    /\ lr_writes = 1
    /\ ctx_lr = TaskEntryIp + 4
    /\ g_trace_lr = 0
    /\ depth >= 3

\* C16: on every fault entry point the first thing the fault path does is
\* disable interrupts or preemption (portDISABLE_INTERRUPTS, vTaskSuspendAll),
\* before any diagnostic output and any other action, and they stay disabled
\* along the rest of the path.
C16_DisabledBeforeAnything ==
    /\ log # <<>> => log[1] \in {"irq_off", "suspend"}
    /\ (entry = "assert" /\ fpc # "L214") => basepri = 1
    /\ fpc \in InErrorBlink \ {"eb_suspend"} => sched_suspended >= 1

\* What the fault path gave to the byte sink or did to it, in order.
SinkEvents == SelectSeq(log, LAMBDA e : e \in {"print", "frame", "flush"})

\* C17: a fault path that emitted diagnostic text enters error_blink only
\* after a flush of the byte sink that follows its last diagnostic character
\* (frame lines of the stack trace included).
C17_FlushedBeforeHalt ==
    (fpc \in InErrorBlink /\ SinkEvents # <<>>) =>
        SinkEvents[Len(SinkEvents)] = "flush"

(***************************************************************************)
(* Scheduler bridge: yield() and event_responder_set_pend_sv().            *)
(***************************************************************************)
\* The task handles startup code registers; 0 is nullptr.
TaskHandles == {1, 2}

\* The values of xTaskGetSchedulerState().
SchedulerStates == {"NOT_STARTED", "RUNNING", "SUSPENDED"}

\* One invocation of a scheduler primitive: its name, the task it names and
\* whether the caller was inside an interrupt handler.
Op(name, to, isr) == [op |-> name, to |-> to, isr |-> isr]

UsesNotificationIfStarted(s, t) == s # "NOT_STARTED"

\* xTaskGetSchedulerState() != taskSCHEDULER_NOT_STARTED && freertos::g_yield_task
UsesNotification(s, t) == s # "NOT_STARTED" /\ t # 0

\* xPortIsInsideInterrupt() == pdTRUE
InsideInterrupt(isr) == isr

\* The scheduler is started, suspended or resumed.
SchedulerChanges ==
    /\ bpc = "idle"
    /\ scheduler_state' \in
         CASE scheduler_state = "NOT_STARTED" -> {"RUNNING"}
           [] scheduler_state = "RUNNING" -> {"SUSPENDED"}
           [] scheduler_state = "SUSPENDED" -> {"RUNNING"}
    /\ UNCHANGED <<g_yield_task, g_event_responder_task, bpc, in_isr, bops, bcase>>
    /\ UNCHANGED <<heapvars, clockvars, faultvars, fmtvars>>

\* Startup code registers the yield target.
SetYieldTask(h) ==
    /\ bpc = "idle" /\ g_yield_task = 0
    /\ g_yield_task' = h
    /\ UNCHANGED <<scheduler_state, g_event_responder_task, bpc, in_isr, bops, bcase>>
    /\ UNCHANGED <<heapvars, clockvars, faultvars, fmtvars>>

\* Startup code registers the event-responder target.
SetEventResponderTask(h) ==
    /\ bpc = "idle" /\ g_event_responder_task = 0
    /\ g_event_responder_task' = h
    /\ UNCHANGED <<scheduler_state, g_yield_task, bpc, in_isr, bops, bcase>>
    /\ UNCHANGED <<heapvars, clockvars, faultvars, fmtvars>>

\* A task (isr = FALSE) or an interrupt handler (isr = TRUE) calls yield().
YieldCall(isr) ==
    /\ bpc = "idle"
    /\ bpc' = "Y299"
    /\ in_isr' = isr
    /\ bops' = <<>>
    /\ bcase' = [fn |-> "yield", sched |-> scheduler_state, target |-> g_yield_task,
                 isr |-> isr]
    /\ UNCHANGED <<scheduler_state, g_yield_task, g_event_responder_task>>
    /\ UNCHANGED <<heapvars, clockvars, faultvars, fmtvars>>

\* if (::xTaskGetSchedulerState() != taskSCHEDULER_NOT_STARTED && freertos::g_yield_task)
YieldTest ==
    /\ bpc = "Y299"
    /\ bpc' = IF UsesNotification(scheduler_state, g_yield_task) THEN "Y300" ELSE "Y309"
    /\ UNCHANGED <<scheduler_state, g_yield_task, g_event_responder_task, in_isr, bops, bcase>>
    /\ UNCHANGED <<heapvars, clockvars, faultvars, fmtvars>>

\* if (xPortIsInsideInterrupt() == pdTRUE)
YieldTestIsr ==
    /\ bpc = "Y300"
    /\ bpc' = IF InsideInterrupt(in_isr) THEN "Y302" ELSE "Y306"
    /\ UNCHANGED <<scheduler_state, g_yield_task, g_event_responder_task, in_isr, bops, bcase>>
    /\ UNCHANGED <<heapvars, clockvars, faultvars, fmtvars>>

\* ::xTaskNotifyFromISR(freertos::g_yield_task, 0, eNoAction, &higher_woken);
YieldNotifyFromIsr ==
    /\ bpc = "Y302"
    /\ bops' = Append(bops, Op("xTaskNotifyFromISR", g_yield_task, in_isr))
    /\ bpc' = "Y303"
    /\ UNCHANGED <<scheduler_state, g_yield_task, g_event_responder_task, in_isr, bcase>>
    /\ UNCHANGED <<heapvars, clockvars, faultvars, fmtvars>>

\* portYIELD_FROM_ISR(higher_woken);
YieldFromIsr ==
    /\ bpc = "Y303"
    /\ bops' = Append(bops, Op("portYIELD_FROM_ISR", 0, in_isr))
    /\ bpc' = "Y304"
    /\ UNCHANGED <<scheduler_state, g_yield_task, g_event_responder_task, in_isr, bcase>>
    /\ UNCHANGED <<heapvars, clockvars, faultvars, fmtvars>>

\* portDATA_SYNC_BARRIER(); and yield() returns
YieldBarrier ==
    /\ bpc = "Y304"
    /\ bops' = Append(bops, Op("portDATA_SYNC_BARRIER", 0, in_isr))
    /\ bpc' = "idle"
    /\ UNCHANGED <<scheduler_state, g_yield_task, g_event_responder_task, in_isr, bcase>>
    /\ UNCHANGED <<heapvars, clockvars, faultvars, fmtvars>>

\* ::xTaskNotify(freertos::g_yield_task, 0, eNoAction); and yield() returns
YieldNotify ==
    /\ bpc = "Y306"
    /\ bops' = Append(bops, Op("xTaskNotify", g_yield_task, in_isr))
    /\ bpc' = "idle"
    /\ UNCHANGED <<scheduler_state, g_yield_task, g_event_responder_task, in_isr, bcase>>
    /\ UNCHANGED <<heapvars, clockvars, faultvars, fmtvars>>

\* freertos::yield(); and yield() returns
YieldBusy ==
    /\ bpc = "Y309"
    /\ bops' = Append(bops, Op("freertos::yield", 0, in_isr))
    /\ bpc' = "idle"
    /\ UNCHANGED <<scheduler_state, g_yield_task, g_event_responder_task, in_isr, bcase>>
    /\ UNCHANGED <<heapvars, clockvars, faultvars, fmtvars>>

\* A task or an interrupt handler calls event_responder_set_pend_sv().
EventResponderCall(isr) ==
    /\ bpc = "idle"
    /\ bpc' = "E293"
    /\ in_isr' = isr
    /\ bops' = <<>>
    /\ bcase' = [fn |-> "event", sched |-> scheduler_state,
                 target |-> g_event_responder_task, isr |-> isr]
    /\ UNCHANGED <<scheduler_state, g_yield_task, g_event_responder_task>>
    /\ UNCHANGED <<heapvars, clockvars, faultvars, fmtvars>>

\* if (freertos::g_event_responder_task); without a target the call returns
EventResponderTest ==
    /\ bpc = "E293"
    /\ bpc' = IF g_event_responder_task # 0 THEN "E294" ELSE "idle"
    /\ UNCHANGED <<scheduler_state, g_yield_task, g_event_responder_task, in_isr, bops, bcase>>
    /\ UNCHANGED <<heapvars, clockvars, faultvars, fmtvars>>

\* ::xTaskNotify(freertos::g_event_responder_task, 0, eNoAction); and the call returns
EventResponderNotify ==
    /\ bpc = "E294"
    /\ bops' = Append(bops, Op("xTaskNotify", g_event_responder_task, in_isr))
    /\ bpc' = "idle"
    /\ UNCHANGED <<scheduler_state, g_yield_task, g_event_responder_task, in_isr, bcase>>
    /\ UNCHANGED <<heapvars, clockvars, faultvars, fmtvars>>

Yield ==
    \/ \E isr \in BOOLEAN : YieldCall(isr)
    \/ YieldTest
    \/ YieldTestIsr
    \/ YieldNotifyFromIsr
    \/ YieldFromIsr
    \/ YieldBarrier
    \/ YieldNotify
    \/ YieldBusy

EventResponderSetPendSv ==
    \/ \E isr \in BOOLEAN : EventResponderCall(isr)
    \/ EventResponderTest
    \/ EventResponderNotify

NextBridge ==
    \/ SchedulerChanges
    \/ \E h \in TaskHandles : SetYieldTask(h)
    \/ \E h \in TaskHandles : SetEventResponderTask(h)
    \/ Yield
    \/ EventResponderSetPendSv

SpecBridge == Init /\ [][NextBridge]_vars

(***************************************************************************)
(* Properties of the scheduler bridge.                                     *)
(***************************************************************************)
\* The one mechanism yield() is to use in the state c its call found.
YieldMechanism(c) ==
    IF c.sched = "NOT_STARTED" \/ c.target = 0
    THEN <<Op("freertos::yield", 0, c.isr)>>
    ELSE IF c.isr
         THEN <<Op("xTaskNotifyFromISR", c.target, TRUE),
                Op("portYIELD_FROM_ISR", 0, TRUE),
                Op("portDATA_SYNC_BARRIER", 0, TRUE)>>
         ELSE <<Op("xTaskNotify", c.target, FALSE)>>

\* C12: each call of yield() invokes exactly the mechanism of its case, in
\* order and once: the busy-yield without a notification when the scheduler
\* is not started or no yield target is registered; one xTaskNotify to
\* g_yield_task from a task; one xTaskNotifyFromISR to g_yield_task, then
\* portYIELD_FROM_ISR, then the barrier from an interrupt handler. No
\* primitive of another case is invoked and no notification names nullptr.
C12_YieldOneMechanism ==
    bcase.fn = "yield" =>
        /\ IsPrefix(bops, YieldMechanism(bcase))
        /\ bpc = "idle" => bops = YieldMechanism(bcase)
        /\ \A i \in 1..Len(bops) :
             bops[i].op \in {"xTaskNotify", "xTaskNotifyFromISR"} => bops[i].to \in TaskHandles

\* yield() returned in an interrupt handler after the notification, the
\* switch request and the barrier.
C12_Witness ==
    /\ bcase.fn = "yield" /\ bcase.isr /\ bpc = "idle"
    /\ Len(bops) = 3
    /\ bops[3].op = "portDATA_SYNC_BARRIER"

\* C13: no call of the bridge invokes the task-context xTaskNotify while its
\* caller is inside an interrupt handler; a notification sent from an
\* interrupt handler is an xTaskNotifyFromISR.
C13_NotifyIsrSafe ==
    \A i \in 1..Len(bops) :
        (bops[i].isr /\ bops[i].op \in {"xTaskNotify", "xTaskNotifyFromISR"}) =>
            bops[i].op = "xTaskNotifyFromISR"

(***************************************************************************)
(* Diagnostic formatter: exc_printf(print, format, ...) and exc_puint.     *)
(* A string is a sequence of characters; its terminating 0 is the position *)
(* after its last character. An unsigned int is its eight 4-bit digits,    *)
(* most significant first.                                                 *)
(***************************************************************************)
\* The number of 4-bit digits of an unsigned int, and of the loop of line 120.
HexDigits == 8

\* The terminating 0 of a C string.
Nul == "NUL"

\* *format, for format = f + i - 1
At(f, i) == IF i <= Len(f) THEN f[i] ELSE Nul

DecimalChars == <<"0", "1", "2", "3", "4", "5", "6", "7", "8", "9">>

\* *format >= '0' && *format <= '9'
IsDigit(c) == \E i \in 1..Len(DecimalChars) : DecimalChars[i] = c

\* (num % 10) + '0', d + '0'
DigitChar(d) == DecimalChars[d + 1]

HexLetters == <<"A", "B", "C", "D", "E", "F">>

\* (d < 10) ? d + '0' : d - 10 + 'A'
HexChar(d) == IF d < 10 THEN DigitChar(d) ELSE HexLetters[d - 9]

ZeroWord == [i \in 1..HexDigits |-> 0]

\* The int of least value, 0x80000000.
IntMin == [i \in 1..HexDigits |-> IF i = 1 THEN 8 ELSE 0]

\* n < 0 for the int with the bits of w
IsNegative(w) == w[1] >= 8

\* w / 10 and w % 10, by long division over the 4-bit digits from position i on,
\* r being the remainder carried and q the quotient's digits so far.
RECURSIVE LongDiv10(_, _, _, _)
LongDiv10(w, i, r, q) ==
    IF i > Len(w) THEN [q |-> q, r |-> r]
    ELSE LongDiv10(w, i + 1, (r * 16 + w[i]) % 10, Append(q, (r * 16 + w[i]) \div 10))

\* w + 1 modulo 2^32
RECURSIVE Inc(_)
Inc(w) ==
    IF w = <<>> THEN <<>>
    ELSE IF w[Len(w)] < 15 THEN SubSeq(w, 1, Len(w) - 1) \o <<w[Len(w)] + 1>>
    ELSE Inc(SubSeq(w, 1, Len(w) - 1)) \o <<0>>

\* -n in two's complement: what a wrapping negation leaves in the register.
Neg(w) == Inc([i \in 1..Len(w) |-> 15 - w[i]])

\* exc_puint: the characters left in buf + i by the loop of lines 71-78.
RECURSIVE PuintDigits(_)
PuintDigits(num) ==
    IF LongDiv10(num, 1, 0, <<>>).q = ZeroWord
    THEN <<DigitChar(LongDiv10(num, 1, 0, <<>>).r)>>
    ELSE PuintDigits(LongDiv10(num, 1, 0, <<>>).q)
           \o <<DigitChar(LongDiv10(num, 1, 0, <<>>).r)>>

\* The characters printed by the loop of lines 120-124 from its n-th round on.
RECURSIVE HexLoop(_, _)
HexLoop(val, n) ==
    IF n < HexDigits
    THEN <<HexChar(val[1])>> \o HexLoop(Tail(val) \o <<0>>, n + 1)
    ELSE <<>>

\* if (*format == '-') format++;
SkipMinus(f, i) == IF At(f, i) = "-" THEN i + 1 ELSE i

\* while (*format >= '0' && *format <= '9') format++;
RECURSIVE SkipSize(_, _)
SkipSize(f, i) == IF IsDigit(At(f, i)) THEN SkipSize(f, i + 1) ELSE i

\* if (*format == 'l') format++;
SkipLong(f, i) == IF At(f, i) = "l" THEN i + 1 ELSE i

\* Where format points at line 104, the '%' being at position p.
ConvIndex(f, p) == SkipLong(f, SkipSize(f, SkipMinus(f, p + 1)))

\* An argument as passed: an int with bits w, a pointer to the string s, or
\* a character (an int holding its code).
IntArg(w) == [t |-> "int", w |-> w, s |-> <<>>]
StrArg(str) == [t |-> "str", w |-> <<>>, s |-> str]
ChrArg(c) == [t |-> "chr", w |-> <<>>, s |-> <<c>>]

\* What va_arg finds where no argument was passed.
StrayWords == {ZeroWord, <<13, 14, 10, 13, 11, 14, 14, 15>>}
StrayStrs == {<<>>, <<"?">>}
StrayChars == {"?"}
StrayArgs == {IntArg(w) : w \in StrayWords}

\* va_arg(args, ...): the argument taken and the list left.
NextArg(args) == IF args # <<>> THEN {Head(args)} ELSE StrayArgs
RestArgs(args) == IF args # <<>> THEN Tail(args) ELSE <<>>

\* The argument read as unsigned int, as char* and as char.
WordsOf(a) == IF a.t = "int" THEN {a.w} ELSE StrayWords
StrsOf(a) == IF a.t = "str" THEN {a.s} ELSE StrayStrs
CharsOf(a) == IF a.t = "chr" THEN {a.s[1]} ELSE StrayChars

\* One active call of exc_printf: its format, the position of format in it
\* and its va_list.
Frame(f, i, args) == [fmt |-> f, pos |-> i, args |-> args]

Top == fstack[Len(fstack)]

\* The active calls with the running one resumed at position i, args left.
Resumed(i, args) == [fstack EXCEPT ![Len(fstack)] = Frame(Top.fmt, i, args)]

\* The running call at a '%' that is not followed by '%'.
AtSpec == fstate = "run" /\ At(Top.fmt, Top.pos) = "%" /\ At(Top.fmt, Top.pos + 1) # "%"

\* The character the conversion is chosen by (lines 104-125).
Conv == At(Top.fmt, ConvIndex(Top.fmt, Top.pos))

\* The position of the format after the conversion and the loop's format++.
AfterConv == ConvIndex(Top.fmt, Top.pos) + 1

\* A caller calls exc_printf(print, f, args...).
ExcPrintfCall(items, f, values, args) ==
    /\ fstate \in {"idle", "done"}
    /\ fstate' = "run"
    /\ fstack' = <<Frame(f, 1, args)>>
    /\ fout' = <<>>
    /\ fcall' = [items |-> items, args |-> values]
    /\ fva' = 0
    /\ UNCHANGED <<heapvars, clockvars, faultvars, bridgevars>>

\* The call that runs returns to its caller: the outermost one to the caller
\* of exc_printf, a nested one into line 108 or into exc_puint.
Returned ==
    /\ fstack' = SubSeq(fstack, 1, Len(fstack) - 1)
    /\ fstate' = IF Len(fstack) = 1 THEN "done" ELSE "run"

\* for (; *format != 0; format++): the format is at its end; va_end; return
FmtReturn ==
    /\ fstate = "run" /\ At(Top.fmt, Top.pos) = Nul
    /\ Returned
    /\ UNCHANGED <<fout, fcall, fva>>
    /\ UNCHANGED <<heapvars, clockvars, faultvars, bridgevars>>

\* else { out: print(*format); }
FmtLiteral ==
    /\ fstate = "run" /\ At(Top.fmt, Top.pos) \notin {Nul, "%"}
    /\ fout' = Append(fout, At(Top.fmt, Top.pos))
    /\ fstack' = Resumed(Top.pos + 1, Top.args)
    /\ UNCHANGED <<fstate, fcall, fva>>
    /\ UNCHANGED <<heapvars, clockvars, faultvars, bridgevars>>

\* ++format; if (*format == '%') goto out;
FmtPercent ==
    /\ fstate = "run" /\ At(Top.fmt, Top.pos) = "%" /\ At(Top.fmt, Top.pos + 1) = "%"
    /\ fout' = Append(fout, At(Top.fmt, Top.pos + 1))
    /\ fstack' = Resumed(Top.pos + 2, Top.args)
    /\ UNCHANGED <<fstate, fcall, fva>>
    /\ UNCHANGED <<heapvars, clockvars, faultvars, bridgevars>>

\* if (*format == '\0') break;
FmtBreak ==
    /\ AtSpec /\ Conv = Nul
    /\ Returned
    /\ UNCHANGED <<fout, fcall, fva>>
    /\ UNCHANGED <<heapvars, clockvars, faultvars, bridgevars>>

\* if (*format == 's') exc_printf(print, (char*) va_arg(args, int));
FmtString ==
    /\ AtSpec /\ Conv = "s"
    /\ \E a \in NextArg(Top.args) : \E str \in StrsOf(a) :
         fstack' = Append(Resumed(AfterConv, RestArgs(Top.args)), Frame(str, 1, <<>>))
    /\ fva' = fva + 1
    /\ UNCHANGED <<fstate, fout, fcall>>
    /\ UNCHANGED <<heapvars, clockvars, faultvars, bridgevars>>

\* else if (*format == 'd'): n = va_arg(args, int); if (n < 0) { n = -n;
\* print('-'); } exc_puint(print, n); where exc_puint ends in
\* exc_printf(print, buf + i). For n the least int, -n overflows: this is the
\* build in which the negation wraps.
FmtSigned ==
    /\ AtSpec /\ Conv = "d"
    /\ \E a \in NextArg(Top.args) : \E n \in WordsOf(a) :
         /\ fout' = IF IsNegative(n) THEN Append(fout, "-") ELSE fout
         /\ fstack' = Append(Resumed(AfterConv, RestArgs(Top.args)),
                             Frame(PuintDigits(IF IsNegative(n) THEN Neg(n) ELSE n), 1, <<>>))
    /\ fva' = fva + 1
    /\ UNCHANGED <<fstate, fcall>>
    /\ UNCHANGED <<heapvars, clockvars, faultvars, bridgevars>>

\* n = -n; for n the least int, in the build in which signed overflow traps.
FmtSignedTraps ==
    /\ AtSpec /\ Conv = "d"
    /\ \E a \in NextArg(Top.args) : IntMin \in WordsOf(a)
    /\ fstate' = "trap"
    /\ fva' = fva + 1
    /\ UNCHANGED <<fstack, fout, fcall>>
    /\ UNCHANGED <<heapvars, clockvars, faultvars, bridgevars>>

\* else if (*format == 'u') exc_puint(print, va_arg(args, unsigned int));
FmtUnsigned ==
    /\ AtSpec /\ Conv = "u"
    /\ \E a \in NextArg(Top.args) : \E num \in WordsOf(a) :
         fstack' = Append(Resumed(AfterConv, RestArgs(Top.args)),
                          Frame(PuintDigits(num), 1, <<>>))
    /\ fva' = fva + 1
    /\ UNCHANGED <<fstate, fout, fcall>>
    /\ UNCHANGED <<heapvars, clockvars, faultvars, bridgevars>>

\* else if (*format == 'x' || *format == 'X'): the loop of lines 119-124
FmtHex ==
    /\ AtSpec /\ Conv \in {"x", "X"}
    /\ \E a \in NextArg(Top.args) : \E val \in WordsOf(a) :
         fout' = fout \o HexLoop(val, 0)
    /\ fstack' = Resumed(AfterConv, RestArgs(Top.args))
    /\ fva' = fva + 1
    /\ UNCHANGED <<fstate, fcall>>
    /\ UNCHANGED <<heapvars, clockvars, faultvars, bridgevars>>

\* else if (*format == 'c') print((char) va_arg(args, int));
FmtChar ==
    /\ AtSpec /\ Conv = "c"
    /\ \E a \in NextArg(Top.args) : \E c \in CharsOf(a) :
         fout' = Append(fout, c)
    /\ fstack' = Resumed(AfterConv, RestArgs(Top.args))
    /\ fva' = fva + 1
    /\ UNCHANGED <<fstate, fcall>>
    /\ UNCHANGED <<heapvars, clockvars, faultvars, bridgevars>>

\* No branch of lines 107-127 takes the character: it is passed over.
FmtOther ==
    /\ AtSpec /\ Conv \notin {Nul, "s", "d", "u", "x", "X", "c"}
    /\ fstack' = Resumed(AfterConv, Top.args)
    /\ UNCHANGED <<fstate, fout, fcall, fva>>
    /\ UNCHANGED <<heapvars, clockvars, faultvars, bridgevars>>

ExcPrintf ==
    \/ FmtReturn
    \/ FmtLiteral
    \/ FmtPercent
    \/ FmtBreak
    \/ FmtString
    \/ FmtSigned
    \/ FmtSignedTraps
    \/ FmtUnsigned
    \/ FmtHex
    \/ FmtChar
    \/ FmtOther

(***************************************************************************)
(* The calls of exc_printf. A format is written as its items, literal      *)
(* characters and conversion specifications; a number is given by its      *)
(* decimal text, with the hexadecimal text of its 32 bits.                 *)
(***************************************************************************)
Lit(c) == [k |-> "lit", mod |-> <<>>, c |-> c]
Spec(mod, conv) == [k |-> "spec", mod |-> mod, c |-> conv]

\* The format string the items spell.
RECURSIVE FormatOf(_)
FormatOf(items) ==
    IF items = <<>> THEN <<>>
    ELSE (IF Head(items).k = "lit" THEN <<Head(items).c>>
          ELSE <<"%">> \o Head(items).mod \o <<Head(items).c>>) \o FormatOf(Tail(items))

Number(neg, dec, hex) == [k |-> "int", neg |-> neg, dec |-> dec, hex |-> hex, s |-> <<>>]
String(str) == [k |-> "str", neg |-> FALSE, dec |-> <<>>, hex |-> <<>>, s |-> str]
Character(c) == [k |-> "chr", neg |-> FALSE, dec |-> <<>>, hex |-> <<>>, s |-> <<c>>]

Numbers ==
    {Number(FALSE, <<"0">>, <<"0", "0", "0", "0", "0", "0", "0", "0">>),
     Number(FALSE, <<"1">>, <<"0", "0", "0", "0", "0", "0", "0", "1">>),
     Number(FALSE, <<"1", "0">>, <<"0", "0", "0", "0", "0", "0", "0", "A">>),
     Number(FALSE, <<"4", "2">>, <<"0", "0", "0", "0", "0", "0", "2", "A">>),
     Number(FALSE, <<"1", "1", "2", "5", "9", "3", "7", "5">>, <<"0", "0", "A", "B", "C", "D", "E", "F">>),
     Number(FALSE, <<"3", "0", "5", "4", "1", "9", "8", "9", "6">>, <<"1", "2", "3", "4", "5", "6", "7", "8">>),
     Number(FALSE, <<"2", "1", "4", "7", "4", "8", "3", "6", "4", "7">>, <<"7", "F", "F", "F", "F", "F", "F", "F">>),
     Number(FALSE, <<"2", "1", "4", "7", "4", "8", "3", "6", "4", "8">>, <<"8", "0", "0", "0", "0", "0", "0", "0">>),
     Number(FALSE, <<"4", "2", "9", "4", "9", "6", "7", "2", "9", "5">>, <<"F", "F", "F", "F", "F", "F", "F", "F">>),
     Number(TRUE, <<"1">>, <<"F", "F", "F", "F", "F", "F", "F", "F">>),
     Number(TRUE, <<"4", "2">>, <<"F", "F", "F", "F", "F", "F", "D", "6">>),
     Number(TRUE, <<"2", "1", "4", "7", "4", "8", "3", "6", "4", "7">>, <<"8", "0", "0", "0", "0", "0", "0", "1">>),
     Number(TRUE, <<"2", "1", "4", "7", "4", "8", "3", "6", "4", "8">>, <<"8", "0", "0", "0", "0", "0", "0", "0">>)}

DigitVal(c) == CHOOSE d \in 0..9 : DecimalChars[d + 1] = c

\* w * 10 + carry modulo 2^32
RECURSIVE MulAdd10(_, _)
MulAdd10(w, carry) ==
    IF w = <<>> THEN <<>>
    ELSE MulAdd10(SubSeq(w, 1, Len(w) - 1), (w[Len(w)] * 10 + carry) \div 16)
           \o <<(w[Len(w)] * 10 + carry) % 16>>

\* The 32 bits of the number with decimal text dec.
RECURSIVE WordOfDecimal(_)
WordOfDecimal(dec) ==
    IF dec = <<>> THEN ZeroWord
    ELSE MulAdd10(WordOfDecimal(SubSeq(dec, 1, Len(dec) - 1)), DigitVal(dec[Len(dec)]))

\* The argument the caller passes for a value.
Passed(v) ==
    CASE v.k = "int" -> IntArg(IF v.neg THEN Neg(WordOfDecimal(v.dec)) ELSE WordOfDecimal(v.dec))
      [] v.k = "str" -> StrArg(v.s)
      [] v.k = "chr" -> ChrArg(v.s[1])

\* The values of unsigned int and of int among the numbers.
UnsignedValues == {v \in Numbers : ~v.neg}
SignedValues == {v \in Numbers : v.neg \/ ~IsNegative(WordOfDecimal(v.dec))}

\* Strings without and with the character '%'.
PlainStrings == {String(<<>>), String(<<"o", "k">>)}
PercentStrings ==
    {String(<<"5", "0", "%">>), String(<<"x", " ", "%", " ", "2">>), String(<<"%", "d">>)}

Characters == {Character("A"), Character("%")}

\* The formats of the callers, by their items.
Formats ==
    {<<Spec(<<>>, "d")>>,
     <<Lit("n"), Lit("="), Spec(<<>>, "d"), Lit(";")>>,
     <<Spec(<<>>, "u")>>,
     <<Spec(<<>>, "x")>>,
     <<Spec(<<>>, "X")>>,
     <<Spec(<<>>, "c")>>,
     <<Lit("1"), Lit("0"), Lit("0"), Spec(<<>>, "%")>>,
     <<Spec(<<>>, "s")>>,
     <<Lit("["), Spec(<<>>, "s"), Lit(":"), Spec(<<>>, "u"), Lit("]")>>,
     <<Spec(<<"5", "l">>, "d")>>,
     <<Spec(<<"-", "8">>, "s")>>,
     <<Spec(<<"0", "8">>, "x")>>,
     <<Spec(<<".", "3">>, "d")>>,
     <<Spec(<<"l", "l">>, "d")>>,
     <<Spec(<<"h">>, "u")>>}

\* The values a caller passes for a conversion specification.
ValuesFor(item) ==
    CASE item.c = "d" -> SignedValues
      [] item.c \in {"u", "x", "X"} -> UnsignedValues
      [] item.c = "c" -> Characters
      [] item.c = "s" -> IF item.mod = <<>> THEN PlainStrings \cup PercentStrings
                         ELSE PlainStrings

\* Whether the item stands for an argument.
TakesArg(item) == item.k = "spec" /\ item.c # "%"

\* The argument lists that fit the items.
RECURSIVE ValueLists(_)
ValueLists(items) ==
    IF items = <<>> THEN {<<>>}
    ELSE IF TakesArg(Head(items))
         THEN {<<v>> \o r : v \in ValuesFor(Head(items)), r \in ValueLists(Tail(items))}
         ELSE ValueLists(Tail(items))

\* A caller that has no call of exc_printf running makes one, with a format
\* and the arguments that fit it.
Caller ==
    /\ fstate \in {"idle", "done"}
    /\ \E items \in Formats : \E vs \in ValueLists(items) :
         ExcPrintfCall(items, FormatOf(items), vs, [i \in 1..Len(vs) |-> Passed(vs[i])])

NextFormat ==
    \/ Caller
    \/ ExcPrintf

SpecFormat == Init /\ [][NextFormat]_vars

(***************************************************************************)
(* Properties of the diagnostic formatter.                                 *)
(***************************************************************************)
\* The text a conversion is to produce for the value v.
TextOf(conv, v) ==
    CASE conv = "d" -> (IF v.neg THEN <<"-">> ELSE <<>>) \o v.dec
      [] conv = "u" -> v.dec
      [] conv \in {"x", "X"} -> v.hex
      [] conv \in {"s", "c"} -> v.s

\* The output the items and values call for: each literal character, '%'
\* for "%%", and each argument converted; a specification with modifiers
\* gives its converted argument if converts holds and nothing otherwise.
RECURSIVE Rendered(_, _, _)
Rendered(items, vs, converts) ==
    IF items = <<>> THEN <<>>
    ELSE IF ~TakesArg(Head(items))
         THEN <<Head(items).c>> \o Rendered(Tail(items), vs, converts)
         ELSE (IF Head(items).mod = <<>> \/ converts
               THEN TextOf(Head(items).c, Head(vs))
               ELSE <<>>) \o Rendered(Tail(items), Tail(vs), converts)

\* The number of arguments the items stand for.
ArgCount(items) == Len(SelectSeq(items, TakesArg))

HasModifier(items) == \E i \in 1..Len(items) : items[i].mod # <<>>
HasString(items) == \E i \in 1..Len(items) : TakesArg(items[i]) /\ items[i].c = "s"

C15_ModifiersConsumed ==
    (fstate = "done" /\ HasModifier(fcall.items)) =>
        fout \in {Rendered(fcall.items, fcall.args, TRUE),
                  Rendered(fcall.items, fcall.args, FALSE)}

\* C19: %s emits the characters of its string argument unchanged and in
\* order, also when the string contains '%', and takes no further argument.
C19_StringVerbatim ==
    (fstate = "done" /\ HasString(fcall.items) /\ ~HasModifier(fcall.items)) =>
        /\ fout = Rendered(fcall.items, fcall.args, TRUE)
        /\ fva = ArgCount(fcall.items)

====
